---- MODULE Spec2Model ----
(***************************************************************************)
(* Canvas Course Management Tool (src/app.py): the paginated fetcher, the  *)
(* TTL file cache, the enrollment counter, the course-update payload of    *)
(* the Quick Course ID Search and the Load Canvas Terms handler.           *)
(*                                                                         *)
(* Strings the code takes apart (the Link header, URLs) are sequences of   *)
(* tokens: "<", ">", ";", ",", " ", one token per URL and one per          *)
(* rel="..." parameter.  The code only splits on "," and ";", strips "<"   *)
(* and ">" and searches for rel="next", none of which cuts a token.        *)
(***************************************************************************)
EXTENDS Integers, Sequences, FiniteSets, TLC

VARIABLES
    server,        \* fetcher: the pages the server holds (a chain)
    fetchOut,      \* fetcher: outcome of the last _paginated_get_from_api call
    files,         \* cache: content of each cache file, or NoFile
    now,           \* datetime.now(), in seconds
    loadOut,       \* cache: outcome of the last _load_from_file_cache call
    lastSave,      \* cache: the _save_to_file_cache call just made
    written,       \* cache: the last (data, time) saved under each path
    session,       \* st.session_state (the fields Load Canvas Terms writes)
    lastRun,       \* what the last Load Canvas Terms click did
    widgets,       \* Quick Course ID Search: search_mode/start/end/no_end
    payload,       \* body of the PUT that Apply Settings sent
    enroll_server, \* enrollments endpoint: response for each course
    enroll_out     \* outcome of the last get_enrollment_count call

vars == <<server, fetchOut, files, now, loadOut, lastSave, written, session, lastRun,
          widgets, payload, enroll_server, enroll_out>>

None == "None"

\* ------------------------------------------------------------------ bounds
MaxPages == 3
MaxAppPages == 2
MaxPageSize == 2
MaxDays == 1
MaxEnroll == 3

\* ------------------------------------------------------- configuration
CACHE_DIR == ".canvas_cache"
TERMS_CACHE_FILE == CACHE_DIR \o "/" \o "terms.pkl"
COURSES_CACHE_FILE_PREFIX == CACHE_DIR \o "/" \o "courses_term_"
CACHE_TTL_HOURS == 24
SECONDS_PER_HOUR == 3600

\* ------------------------------------------------------------ sequences
\* str.split(sep): the pieces of s between the occurrences of sep
RECURSIVE SplitFrom(_, _, _)
SplitFrom(s, sep, cur) ==
    IF s = <<>> THEN <<cur>>
    ELSE IF Head(s) = sep THEN <<cur>> \o SplitFrom(Tail(s), sep, <<>>)
    ELSE SplitFrom(Tail(s), sep, Append(cur, Head(s)))

Split(s, sep) == SplitFrom(s, sep, <<>>)

\* str.strip(chars): leading and trailing tokens of chars removed
RECURSIVE LStrip(_, _)
LStrip(s, chars) ==
    IF s # <<>> /\ Head(s) \in chars THEN LStrip(Tail(s), chars) ELSE s

RECURSIVE RStrip(_, _)
RStrip(s, chars) ==
    IF s # <<>> /\ s[Len(s)] \in chars
    THEN RStrip(SubSeq(s, 1, Len(s) - 1), chars) ELSE s

Strip(s, chars) == RStrip(LStrip(s, chars), chars)

\* ---------------------------------------------------------- the server
RelNext == "rel=\"next\""
RelCurrent == "rel=\"current\""

\* f"{base_url}/api/v1/accounts/{account_id}/terms?per_page=100"
StartUrl == "https://canvas.test/api/v1/accounts/1/terms?per_page=100"
PageUrl(i) == IF i = 1 THEN StartUrl ELSE StartUrl \o "&page=" \o ToString(i)

\* None and '' both end `while current_url:`
NoUrl == <<>>

\* one link-value of a Link header: <url>; rel="..."
LinkValue(url, rel) == <<"<", url, ">", ";", " ", rel>>

\* The Link header of page i, in the forms servers send it:
\*   absent   no Link header
\*   nonext   <cur>; rel="current"
\*   tight    <cur>; rel="current",<next>; rel="next"      (Canvas)
\*   spaced   <cur>; rel="current", <next>; rel="next"     (RFC 8288 list)
LinkStyles == {"absent", "nonext", "tight", "spaced"}

LinkHeader(i, style) ==
    CASE style = "absent" -> <<>>
      [] style = "nonext" -> LinkValue(PageUrl(i), RelCurrent)
      [] style = "tight"  -> LinkValue(PageUrl(i), RelCurrent) \o <<",">>
                                \o LinkValue(PageUrl(i + 1), RelNext)
      [] style = "spaced" -> LinkValue(PageUrl(i), RelCurrent) \o <<",", " ">>
                                \o LinkValue(PageUrl(i + 1), RelNext)

CarriesNext(style) == style \in {"tight", "spaced"}

\* the records of page i: size records, told apart by page and position
PageRecords(i, size) == [j \in 1..size |-> 10 * i + j]

\* A page answers 200 with its records and a Link header, or fails.
OkPages(maxSize) == [status : {200}, size : 0..maxSize, link : LinkStyles]
FailedPages == [status : {500}, size : {0}, link : {"absent"}]
Pages(maxSize) == OkPages(maxSize) \cup FailedPages

\* An endpoint: its pages, and whether it wraps each page's list in an
\* object under 'enrollment_terms' (the terms endpoint) or sends it bare.
Chains(maxLen, maxSize) ==
    [wrapped : BOOLEAN,
     pages   : UNION {[1..n -> Pages(maxSize)] : n \in 1..maxLen}]

JsonBody(wrapped, list) ==
    [isDict |-> wrapped,
     key    |-> IF wrapped THEN "enrollment_terms" ELSE None,
     list   |-> list]

NotFound == [status_code |-> 404, json |-> JsonBody(FALSE, <<>>), link |-> <<>>]

\* requests.get(url): the response of the page at url, 404 for any other
\* http URL.
Respond(chain, url) ==
    IF \E i \in 1..Len(chain.pages) : url = <<PageUrl(i)>>
    THEN LET i == CHOOSE k \in 1..Len(chain.pages) : url = <<PageUrl(k)>>
             page == chain.pages[i]
         IN  [status_code |-> page.status,
              json        |-> JsonBody(chain.wrapped, PageRecords(i, page.size)),
              link        |-> LinkHeader(i, page.link)]
    ELSE NotFound

\* requests.get removes leading whitespace from the URL and raises
\* InvalidSchema unless what is left starts with http:// or https://
IsHttpUrl(url) ==
    LET u == LStrip(url, {" "})
    IN  u # <<>> /\ u[1] \notin {"<", ">", ";", ",", " ", RelNext, RelCurrent}

\* ------------------------------------------------------------- fetcher
\* data.get('enrollment_terms', data) if isinstance(data, dict) else data;
\* extending a list by a dict appends the dict's keys
Normalize(data) ==
    IF data.isDict
    THEN IF data.key = "enrollment_terms" THEN data.list ELSE <<data.key>>
    ELSE data.list

\* next((l.split(';')[0].strip('<>') for l in links if 'rel="next"' in l), None)
NextUrl(linkHeader) ==
    LET links == Split(linkHeader, ",")
        hits  == {n \in 1..Len(links) : \E k \in 1..Len(links[n]) : links[n][k] = RelNext}
    IN  IF hits = {} THEN NoUrl
        ELSE LET n == CHOOSE m \in hits : \A o \in hits : m <= o
             IN  Strip(Split(links[n], ";")[1], {"<", ">"})

\* the while loop: gets are the URLs requested so far
RECURSIVE FetchLoop(_, _, _, _)
FetchLoop(chain, current_url, all_data, gets) ==
    IF current_url = NoUrl
    THEN [data |-> all_data, raised |-> FALSE, gets |-> gets]
    ELSE IF ~IsHttpUrl(current_url)
    THEN [data |-> <<>>, raised |-> TRUE, gets |-> gets]
    ELSE LET resp == Respond(chain, LStrip(current_url, {" "}))
         IN  IF resp.status_code # 200
             THEN [data |-> all_data, raised |-> FALSE,
                   gets |-> Append(gets, current_url)]
             ELSE FetchLoop(chain, NextUrl(resp.link),
                            all_data \o Normalize(resp.json),
                            Append(gets, current_url))

\* mutant: a failed page loses the pages fetched before it
PaginatedGetAllOrNothing(chain, url) ==
    LET out == FetchLoop(chain, url, <<>>, <<>>)
    IN  IF /\ out.gets # <<>>
           /\ Respond(chain, LStrip(out.gets[Len(out.gets)], {" "})).status_code # 200
        THEN [out EXCEPT !.data = <<>>]
        ELSE out

_paginated_get_from_api(chain, url) == FetchLoop(chain, url, <<>>, <<>>)

\* ---------------------------------------------------- enrollment count
CourseIds == {"101", "102"}
EnrollStatuses == {200, 401, 404, 500}
EnrollResponses == [status_code : EnrollStatuses, size : 0..MaxEnroll]

\* resp.json() of the enrollments endpoint: one record per enrollment
EnrollJson(resp) == [j \in 1..resp.size |-> j]

\* mutant: the status is not looked at
CountWithoutStatusCheck(course_id, srv) == Len(EnrollJson(srv[course_id]))

get_enrollment_count(course_id, srv) ==
    LET resp == srv[course_id]
    IN  IF resp.status_code = 200 THEN Len(EnrollJson(resp)) ELSE 0

\* ---------------------------------------------------- file-based cache
CacheFiles == {TERMS_CACHE_FILE, COURSES_CACHE_FILE_PREFIX \o "7.pkl"}

NoFile == [exists |-> FALSE]
\* what open(filepath, 'wb') leaves before pickle.dump has written
Truncated == [exists |-> TRUE, valid |-> FALSE]
\* pickle.dump((data, timestamp), f); pickle.load gives the pair back
Pickled(data, timestamp) ==
    [exists |-> TRUE, valid |-> TRUE, data |-> data, timestamp |-> timestamp]

\* the instants the clock is read at: around each multiple of the TTL
ClockValues ==
    {t \in {k * CACHE_TTL_HOURS * SECONDS_PER_HOUR + e : k \in 0..MaxDays, e \in {-1, 0, 1}} :
        t >= 0}

Absent == [kind |-> "absent"]
Raised == [kind |-> "raise"]
Hit(data, timestamp) == [kind |-> "hit", data |-> data, timestamp |-> timestamp]

\* mutant: an entry exactly TTL old still counts as fresh
IsFreshInclusive(t, timestamp) == (t - timestamp) <= CACHE_TTL_HOURS * SECONDS_PER_HOUR

\* (datetime.now() - timestamp).total_seconds() / 3600 < CACHE_TTL_HOURS,
\* over whole seconds: e / 3600 < 24 exactly when e < 24 * 3600
IsFresh(t, timestamp) == (t - timestamp) < CACHE_TTL_HOURS * SECONDS_PER_HOUR

_load_from_file_cache(fs, filepath, t) ==
    IF fs[filepath].exists
    THEN IF ~fs[filepath].valid THEN Raised
         ELSE IF IsFresh(t, fs[filepath].timestamp)
              THEN Hit(fs[filepath].data, fs[filepath].timestamp)
              ELSE Absent
    ELSE Absent

\* mutant: an existing entry keeps its old timestamp
SaveKeepingTimestamp(fs, filepath, data, t) ==
    [fs EXCEPT ![filepath] =
        IF fs[filepath].exists /\ fs[filepath].valid
        THEN Pickled(data, fs[filepath].timestamp)
        ELSE Pickled(data, t)]

_save_to_file_cache(fs, filepath, data, t) ==
    [fs EXCEPT ![filepath] = Pickled(data, t)]

\* ------------------------------------------------------- session state
INITIAL_SESSION_STATE ==
    [fetched_terms                 |-> <<>>,
     data_loaded_and_terms_fetched |-> FALSE,
     credentials_collapsed         |-> FALSE]

\* ----------------------------------------------- course-update payload
Null == "null"
NoDate == [y |-> 0, m |-> 0, d |-> 0]
Dates == {[y |-> 2024, m |-> 1, d |-> 15],
          [y |-> 2024, m |-> 5, d |-> 30],
          [y |-> 2024, m |-> 2, d |-> 29],
          [y |-> 2025, m |-> 12, d |-> 1]}
Today == [y |-> 2024, m |-> 1, d |-> 15]
Modes == {"Term Driven", "Date Driven"}

RECURSIVE ZeroPad(_, _)
ZeroPad(str, width) == IF Len(str) >= width THEN str ELSE ZeroPad("0" \o str, width)
Pad(n, width) == ZeroPad(ToString(n), width)

\* str(datetime.date): %04d-%02d-%02d
DateStr(date) == Pad(date.y, 4) \o "-" \o Pad(date.m, 2) \o "-" \o Pad(date.d, 2)

\* lines 113-122: the dates the run reads from the widgets it renders
StartDate(w) == IF w.search_mode = "Date Driven" THEN w.search_start ELSE NoDate
EndDate(w) ==
    IF w.search_mode = "Date Driven" /\ ~w.search_no_end THEN w.search_end ELSE NoDate

\* mutant: the end date gets the start date's time of day
BuildPayloadMidnightEnd(mode, start_date, end_date) ==
    [course |->
        [start_at |-> IF start_date # NoDate /\ mode = "Date Driven"
                      THEN DateStr(start_date) \o "T00:00:00Z" ELSE Null,
         end_at   |-> IF end_date # NoDate /\ mode = "Date Driven"
                      THEN DateStr(end_date) \o "T00:00:00Z" ELSE Null,
         restrict_enrollments_to_course_dates |-> (mode = "Date Driven")],
     override_sis_stickiness |-> TRUE]

\* lines 125-132
BuildPayload(mode, start_date, end_date) ==
    [course |->
        [start_at |-> IF start_date # NoDate /\ mode = "Date Driven"
                      THEN DateStr(start_date) \o "T00:00:00Z" ELSE Null,
         end_at   |-> IF end_date # NoDate /\ mode = "Date Driven"
                      THEN DateStr(end_date) \o "T23:59:59Z" ELSE Null,
         restrict_enrollments_to_course_dates |-> (mode = "Date Driven")],
     override_sis_stickiness |-> TRUE]

NoPut == [sent |-> FALSE]
NoFetch == [ran |-> FALSE]
NoLoad == [ran |-> FALSE]
NoSave == [made |-> FALSE]
NoClick == [clicked |-> FALSE]
NoCount == [ran |-> FALSE]

\* ------------------------------------------------------------ initial state
OneChain == [wrapped |-> TRUE, pages |-> <<[status |-> 200, size |-> 0, link |-> "absent"]>>]
OneEnrollServer == [c \in CourseIds |-> [status_code |-> 200, size |-> 0]]

\* The state after the script's first lines: no cache file yet, the session
\* at INITIAL_SESSION_STATE, the form at its defaults; the servers hold one
\* of chains and one of enrollServers.
Start(chains, enrollServers) ==
    /\ server \in chains
    /\ fetchOut = NoFetch
    /\ files = [f \in CacheFiles |-> NoFile]
    /\ now = 0
    /\ loadOut = NoLoad
    /\ lastSave = NoSave
    /\ written = [f \in CacheFiles |-> NoSave]
    /\ session = INITIAL_SESSION_STATE
    /\ lastRun = NoClick
    /\ widgets = [search_mode |-> "Term Driven", search_start |-> Today,
                  search_end |-> Today, search_no_end |-> FALSE]
    /\ payload = NoPut
    /\ enroll_server \in enrollServers
    /\ enroll_out = NoCount

fetchVars == <<server, fetchOut>>
cacheVars == <<files, now, loadOut, lastSave, written>>
appVars == <<session, lastRun>>
payloadVars == <<widgets, payload>>
enrollVars == <<enroll_server, enroll_out>>

\* ---------------------------------------------------------------- actions
\* one call of _paginated_get_from_api on the terms URL
Fetch ==
    /\ fetchOut' = [ran |-> TRUE, res |-> _paginated_get_from_api(server, <<StartUrl>>)]
    /\ UNCHANGED <<server, cacheVars, appVars, payloadVars, enrollVars>>

\* one call of get_enrollment_count
GetEnrollmentCount(course_id) ==
    /\ enroll_out' = [ran |-> TRUE, course_id |-> course_id,
                      count |-> get_enrollment_count(course_id, enroll_server)]
    /\ UNCHANGED <<enroll_server, fetchVars, cacheVars, appVars, payloadVars>>

\* the lists a caller saves
CacheData == {PageRecords(i, n) : i \in 1..2, n \in 0..MaxPageSize}

\* one call of _save_to_file_cache
Save(filepath, data) ==
    /\ files' = _save_to_file_cache(files, filepath, data, now)
    /\ lastSave' = [made |-> TRUE, filepath |-> filepath, data |-> data, at |-> now]
    /\ written' = [written EXCEPT ![filepath] = [made |-> TRUE, data |-> data, at |-> now]]
    /\ loadOut' = NoLoad
    /\ UNCHANGED <<now, fetchVars, appVars, payloadVars, enrollVars>>

\* mutant: a read deletes the entry it finds stale
LoadEvicting(filepath) ==
    /\ loadOut' = [ran |-> TRUE, filepath |-> filepath,
                   out |-> _load_from_file_cache(files, filepath, now)]
    /\ files' = IF /\ files[filepath].exists
                   /\ _load_from_file_cache(files, filepath, now) = Absent
                THEN [files EXCEPT ![filepath] = NoFile]
                ELSE files
    /\ UNCHANGED <<now, lastSave, written, fetchVars, appVars, payloadVars, enrollVars>>

\* one call of _load_from_file_cache: it opens the file for reading only
Load(filepath) ==
    /\ loadOut' = [ran |-> TRUE, filepath |-> filepath,
                   out |-> _load_from_file_cache(files, filepath, now)]
    /\ UNCHANGED <<files, now, lastSave, written, fetchVars, appVars, payloadVars, enrollVars>>

\* time passes
Advance(t) ==
    /\ t > now
    /\ now' = t
    /\ loadOut' = NoLoad
    /\ lastSave' = NoSave
    /\ lastRun' = NoClick
    /\ UNCHANGED <<files, written, session, fetchVars, payloadVars, enrollVars>>

\* _save_to_file_cache cut short between open(filepath, 'wb') and the end
\* of pickle.dump: the file is left truncated
InterruptedSave(filepath) ==
    /\ files' = [files EXCEPT ![filepath] = Truncated]
    /\ loadOut' = NoLoad
    /\ lastSave' = NoSave
    /\ UNCHANGED <<now, written, fetchVars, appVars, payloadVars, enrollVars>>

\* a new browser session: lines 49-51 give every key its default
NewSession ==
    /\ session' = INITIAL_SESSION_STATE
    /\ lastRun' = NoClick
    /\ UNCHANGED <<cacheVars, fetchVars, payloadVars, enrollVars>>

TextInputs == {"", "x"}

\* what the terms endpoint can make _paginated_get_from_api(url, headers) do
TermsOutcomes ==
    {_paginated_get_from_api(chain, <<StartUrl>>) : chain \in Chains(MaxAppPages, MaxPageSize)}

\* mutant: the `if not terms` test is missing
LoadTermsUnchecked(canvas_domain, api_token, account_id, fetched) ==
    /\ canvas_domain # "" /\ api_token # "" /\ account_id # ""
    /\ lastRun' = [clicked |-> TRUE, raised |-> fetched.raised,
                   terms |-> fetched.data, gets |-> Len(fetched.gets)]
    /\ IF fetched.raised
       THEN UNCHANGED <<files, written, session>>
       ELSE /\ files' = _save_to_file_cache(files, TERMS_CACHE_FILE, fetched.data, now)
            /\ written' = [written EXCEPT ![TERMS_CACHE_FILE] =
                              [made |-> TRUE, data |-> fetched.data, at |-> now]]
            /\ session' = [session EXCEPT
                              !.fetched_terms = fetched.data,
                              !.data_loaded_and_terms_fetched = TRUE,
                              !.credentials_collapsed = TRUE]
    /\ UNCHANGED <<now, loadOut, lastSave, fetchVars, payloadVars, enrollVars>>

\* a script run with "Load Canvas Terms" clicked (lines 142-156); the
\* button is rendered only with the three credentials filled in, and
\* fetched is the outcome of the call on line 146
LoadTerms(canvas_domain, api_token, account_id, fetched) ==
    /\ canvas_domain # "" /\ api_token # "" /\ account_id # ""
    /\ lastRun' = [clicked |-> TRUE, raised |-> fetched.raised,
                   terms |-> fetched.data, gets |-> Len(fetched.gets)]
    /\ IF fetched.raised \/ fetched.data = <<>>
       THEN UNCHANGED <<files, written, session>>
       ELSE /\ files' = _save_to_file_cache(files, TERMS_CACHE_FILE, fetched.data, now)
            /\ written' = [written EXCEPT ![TERMS_CACHE_FILE] =
                              [made |-> TRUE, data |-> fetched.data, at |-> now]]
            /\ session' = [session EXCEPT
                              !.fetched_terms = fetched.data,
                              !.data_loaded_and_terms_fetched = TRUE,
                              !.credentials_collapsed = TRUE]
    /\ UNCHANGED <<now, loadOut, lastSave, fetchVars, payloadVars, enrollVars>>

\* the widgets of the Quick Course ID Search; the date widgets are rendered
\* in Date Driven mode only, and a run without a click sends nothing
SetMode(mode) ==
    /\ mode # widgets.search_mode
    /\ widgets' = [widgets EXCEPT !.search_mode = mode]
    /\ payload' = NoPut
    /\ UNCHANGED <<fetchVars, cacheVars, appVars, enrollVars>>

SetStart(date) ==
    /\ widgets.search_mode = "Date Driven"
    /\ widgets' = [widgets EXCEPT !.search_start = date]
    /\ payload' = NoPut
    /\ UNCHANGED <<fetchVars, cacheVars, appVars, enrollVars>>

SetEnd(date) ==
    /\ widgets.search_mode = "Date Driven" /\ ~widgets.search_no_end
    /\ widgets' = [widgets EXCEPT !.search_end = date]
    /\ payload' = NoPut
    /\ UNCHANGED <<fetchVars, cacheVars, appVars, enrollVars>>

ToggleNoEnd ==
    /\ widgets.search_mode = "Date Driven"
    /\ widgets' = [widgets EXCEPT !.search_no_end = ~widgets.search_no_end]
    /\ payload' = NoPut
    /\ UNCHANGED <<fetchVars, cacheVars, appVars, enrollVars>>

\* a script run with "Apply Settings" clicked (lines 101-134); the form is
\* rendered only when the course lookup answered 200
ApplySettings(canvas_domain, api_token, course_id_search, lookup_status) ==
    /\ canvas_domain # "" /\ api_token # "" /\ course_id_search # ""
    /\ lookup_status = 200
    /\ payload' = [sent |-> TRUE,
                   json |-> BuildPayload(widgets.search_mode, StartDate(widgets),
                                         EndDate(widgets))]
    /\ UNCHANGED <<widgets, fetchVars, cacheVars, appVars, enrollVars>>

\* ---------------------------------------------------------- specifications
NextFetch == Fetch
SpecFetch == Start(Chains(MaxPages, MaxPageSize), {OneEnrollServer}) /\ [][NextFetch]_vars

NextEnroll == \E c \in CourseIds : GetEnrollmentCount(c)
SpecEnroll == Start({OneChain}, [CourseIds -> EnrollResponses]) /\ [][NextEnroll]_vars

NextCache ==
    \/ \E f \in CacheFiles, data \in CacheData : Save(f, data)
    \/ \E f \in CacheFiles : Load(f)
    \/ \E t \in ClockValues : Advance(t)
SpecCache == Start({OneChain}, {OneEnrollServer}) /\ [][NextCache]_vars

NextCacheFaulty ==
    \/ NextCache
    \/ \E f \in CacheFiles : InterruptedSave(f)
SpecCacheFaulty == Start({OneChain}, {OneEnrollServer}) /\ [][NextCacheFaulty]_vars

NextApp ==
    \/ \E d, k, a \in TextInputs, fetched \in TermsOutcomes : LoadTerms(d, k, a, fetched)
    \/ NewSession
    \/ \E t \in ClockValues : Advance(t)
SpecApp == Start({OneChain}, {OneEnrollServer}) /\ [][NextApp]_vars

NextPayload ==
    \/ \E mode \in Modes : SetMode(mode)
    \/ \E date \in Dates : SetStart(date)
    \/ \E date \in Dates : SetEnd(date)
    \/ ToggleNoEnd
    \/ \E d, k, c \in TextInputs, st \in {200, 404} : ApplySettings(d, k, c, st)
SpecPayload == Start({OneChain}, {OneEnrollServer}) /\ [][NextPayload]_vars


\* ------------------------------------------------------------------ claims
TtlSeconds == 24 * 60 * 60

RECURSIVE Concat(_)
Concat(ss) == IF ss = <<>> THEN <<>> ELSE Head(ss) \o Concat(Tail(ss))

NumPages(chain) == Len(chain.pages)

\* the records of pages 1..n of chain, in page order then in-page order
RecordsUpTo(chain, n) ==
    Concat([i \in 1..n |-> PageRecords(i, chain.pages[i].size)])

\* the status page k answers with (404 past the end of the chain)
StatusOfPage(chain, k) == Respond(chain, <<PageUrl(k)>>).status_code

\* every page answers 200, every page but the last carries a next link
WellFormedChain(chain) ==
    /\ \A i \in 1..NumPages(chain) : chain.pages[i].status = 200
    /\ \A i \in 1..(NumPages(chain) - 1) : CarriesNext(chain.pages[i].link)
    /\ ~CarriesNext(chain.pages[NumPages(chain)].link)

\* C1: for a chain of N >= 1 pages that all answer with success and all but
\* the last carry a next link, the fetcher returns, without raising, the
\* concatenation of the pages' record lists in page order, the bodies bare
\* or wrapped under 'enrollment_terms'.
CexC1 ==
    (fetchOut.ran /\ WellFormedChain(server)) =>
        /\ ~fetchOut.res.raised
        /\ fetchOut.res.data = RecordsUpTo(server, NumPages(server))

\* C1, with the Link headers Canvas sends (no space after the comma): the
\* concatenation is returned.
C1TightLinks ==
    (/\ fetchOut.ran
     /\ WellFormedChain(server)
     /\ \A i \in 1..NumPages(server) : server.pages[i].link # "spaced") =>
        /\ ~fetchOut.res.raised
        /\ fetchOut.res.data = RecordsUpTo(server, NumPages(server))

\* C2: if page k is requested and answers with a non-success status, the
\* fetcher stops there: page k is its last GET, it raises nothing and it
\* returns the records of pages 1..k-1 in order (none when k = 1).
ThmC2 ==
    fetchOut.ran =>
        \A k \in 1..(NumPages(server) + 1) :
            (/\ StatusOfPage(server, k) \notin 200..299
             /\ \E n \in 1..Len(fetchOut.res.gets) : fetchOut.res.gets[n] = <<PageUrl(k)>>) =>
                /\ ~fetchOut.res.raised
                /\ Len(fetchOut.res.gets) = k
                /\ fetchOut.res.gets[k] = <<PageUrl(k)>>
                /\ fetchOut.res.data = RecordsUpTo(server, k - 1)

WitC2 ==
    /\ fetchOut.ran
    /\ NumPages(server) = 3
    /\ server.pages[1].size = 2 /\ server.pages[2].size = 1
    /\ server.pages[3].status = 500
    /\ Len(fetchOut.res.gets) = 3
    /\ fetchOut.res.data = <<11, 12, 21>>

\* C3: each cache file holds the most recent write to its path (a write
\* replaces the entry, a write to another path leaves it), and a read that
\* directly follows write(path, R) at time t returns (R, t).
ThmC3 ==
    /\ \A f \in CacheFiles :
          files[f] = IF written[f].made THEN Pickled(written[f].data, written[f].at)
                     ELSE NoFile
    /\ (loadOut.ran /\ lastSave.made /\ loadOut.filepath = lastSave.filepath) =>
          loadOut.out = Hit(lastSave.data, lastSave.at)

WitC3 ==
    /\ loadOut.ran /\ lastSave.made /\ loadOut.filepath = lastSave.filepath
    /\ lastSave.at >= TtlSeconds
    /\ lastSave.data = <<11, 12>>
    /\ loadOut.out = Hit(<<11, 12>>, now)
    /\ \E f \in CacheFiles : f # loadOut.filepath /\ written[f].made /\ written[f].at = 0

\* C4: a read returns the stored (records, timestamp) exactly while less
\* than 24 hours have passed since the stored timestamp; at 24 hours or
\* more, or with no file at the path, it returns absent; it does not raise.
ThmC4 ==
    loadOut.ran =>
        LET f == files[loadOut.filepath]
        IN  /\ loadOut.out.kind # "raise"
            /\ IF f.exists
               THEN IF now - f.timestamp < TtlSeconds
                    THEN loadOut.out = Hit(f.data, f.timestamp)
                    ELSE loadOut.out = Absent
               ELSE loadOut.out = Absent

WitC4 ==
    /\ loadOut.ran
    /\ files[loadOut.filepath].exists
    /\ now - files[loadOut.filepath].timestamp = TtlSeconds
    /\ loadOut.out = Absent

\* C5: a read of a file that exists but cannot be unpickled is a cache
\* miss: it returns absent and raises nothing.
CexC5 ==
    (loadOut.ran /\ files[loadOut.filepath] = Truncated) => loadOut.out = Absent

\* C6: a Load Terms click with a fresh terms cache entry (age < TTL) issues
\* no HTTP request and uses the cached list.
CexC6 ==
    [][(/\ lastRun'.clicked
        /\ _load_from_file_cache(files, TERMS_CACHE_FILE, now).kind = "hit") =>
            /\ lastRun'.gets = 0
            /\ session'.fetched_terms = files[TERMS_CACHE_FILE].data]_vars

\* str(date) of the dates of the model, written out
IsoText(date) ==
    CASE date = [y |-> 2024, m |-> 1, d |-> 15] -> "2024-01-15"
      [] date = [y |-> 2024, m |-> 5, d |-> 30] -> "2024-05-30"
      [] date = [y |-> 2024, m |-> 2, d |-> 29] -> "2024-02-29"
      [] date = [y |-> 2025, m |-> 12, d |-> 1] -> "2025-12-01"

\* C7: the payload Apply Settings sends depends on the mode and the dates
\* only: Term Driven gives null, null, false whatever dates the widgets
\* hold; Date Driven gives {start}T00:00:00Z, {end}T23:59:59Z or null with
\* "No End Date", and true; override_sis_stickiness is always true.
ThmC7 ==
    payload.sent =>
        /\ payload.json.override_sis_stickiness = TRUE
        /\ DOMAIN payload.json = {"course", "override_sis_stickiness"}
        /\ IF widgets.search_mode = "Term Driven"
           THEN payload.json.course =
                    [start_at |-> "null", end_at |-> "null",
                     restrict_enrollments_to_course_dates |-> FALSE]
           ELSE payload.json.course =
                    [start_at |-> IsoText(widgets.search_start) \o "T00:00:00Z",
                     end_at   |-> IF widgets.search_no_end THEN "null"
                                  ELSE IsoText(widgets.search_end) \o "T23:59:59Z",
                     restrict_enrollments_to_course_dates |-> TRUE]

WitC7 ==
    /\ payload.sent
    /\ widgets.search_mode = "Date Driven"
    /\ ~widgets.search_no_end
    /\ payload.json.course =
          [start_at |-> "2024-01-15T00:00:00Z", end_at |-> "2024-05-30T23:59:59Z",
           restrict_enrollments_to_course_dates |-> TRUE]

\* Term Driven with dates entered before: still null, null, false
WitC7Term ==
    /\ payload.sent
    /\ widgets.search_mode = "Term Driven"
    /\ widgets.search_start = [y |-> 2025, m |-> 12, d |-> 1]
    /\ widgets.search_end = [y |-> 2024, m |-> 2, d |-> 29]
    /\ payload.json.course.start_at = "null"

\* C8: a read leaves every cache file as it was, a stale one included; a
\* file changes only by a write to its path.
ThmC8 ==
    [][/\ loadOut'.ran => files' = files
       /\ \A f \in CacheFiles :
             files'[f] # files[f] => (lastSave'.made /\ lastSave'.filepath = f)]_vars

WitC8 ==
    /\ loadOut.ran
    /\ loadOut.out = Absent
    /\ files[loadOut.filepath].exists
    /\ now - files[loadOut.filepath].timestamp > TtlSeconds

\* C9: get_enrollment_count returns the number of records of a 200
\* response and 0 for any other status.
ThmC9 ==
    enroll_out.ran =>
        LET resp == enroll_server[enroll_out.course_id]
        IN  enroll_out.count = IF resp.status_code = 200 THEN resp.size ELSE 0

WitC9 ==
    /\ enroll_out.ran
    /\ enroll_server[enroll_out.course_id].status_code = 500
    /\ enroll_server[enroll_out.course_id].size > 0
    /\ enroll_out.count = 0
    /\ \E c \in CourseIds : enroll_server[c] = [status_code |-> 200, size |-> 0]

\* C10: a Load Terms click whose fetch returns no records leaves the terms
\* cache file and the session unchanged; and whenever
\* data_loaded_and_terms_fetched is true, fetched_terms is non-empty and is
\* the list the last non-empty load stored in the terms cache file.
LoadedMeansCached ==
    session.data_loaded_and_terms_fetched =>
        /\ session.fetched_terms # <<>>
        /\ session.credentials_collapsed
        /\ written[TERMS_CACHE_FILE].made
        /\ written[TERMS_CACHE_FILE].data = session.fetched_terms
        /\ files[TERMS_CACHE_FILE] =
              Pickled(session.fetched_terms, written[TERMS_CACHE_FILE].at)

ThmC10 ==
    /\ []LoadedMeansCached
    /\ [][(lastRun'.clicked /\ lastRun'.terms = <<>>) =>
             (files' = files /\ session' = session)]_vars

WitC10 ==
    /\ session.data_loaded_and_terms_fetched
    /\ session.fetched_terms = <<11, 12, 21>>
    /\ lastRun.clicked /\ ~lastRun.raised /\ lastRun.terms = <<>> /\ lastRun.gets = 2
    /\ now > files[TERMS_CACHE_FILE].timestamp
====
